---- MODULE Spec2Model ----
(***************************************************************************)
(* Model of video-sprite-generator (src/app.py): the /generate job         *)
(* pipeline (download, probe, sample, compose, build cue, cleanup) and the *)
(* pure timing / grid arithmetic of the sampler, the sprite composer and   *)
(* the cue (WebVTT) builder.                                               *)
(*                                                                         *)
(* Times are integers in milliseconds.  A file is "absent", "empty"        *)
(* (zero bytes) or "data" (non-empty, possibly partial).                   *)
(***************************************************************************)
EXTENDS Integers, Sequences, FiniteSets, TLC

VARIABLES pc, video_url, video, thumb_files, manifest, sprite, vtt,
          duration, thumbnail_interval_for_vtt, num_thumbnails, i,
          requested, outcomes, thumbnail_paths, tiling, vtt_calls,
          stages, download_result, compose_result, cue_result, response,
          fs, jobs, serve

vars == <<pc, video_url, video, thumb_files, manifest, sprite, vtt,
          duration, thumbnail_interval_for_vtt, num_thumbnails, i,
          requested, outcomes, thumbnail_paths, tiling, vtt_calls,
          stages, download_result, compose_result, cue_result, response,
          fs, jobs, serve>>

(* the variables of the one job of Spec, GridSpec and VttSpec *)
job_vars == <<pc, video_url, video, thumb_files, manifest, sprite, vtt,
              duration, thumbnail_interval_for_vtt, num_thumbnails, i,
              requested, outcomes, thumbnail_paths, tiling, vtt_calls,
              stages, download_result, compose_result, cue_result, response>>

----------------------------------------------------------------------------
(* Configuration: src/app.py lines 25-33 *)

THUMB_WIDTH == 160
THUMB_HEIGHT == 90
THUMBS_PER_ROW == 10
THUMBNAIL_INTERVAL == 5

(* 1000: the factor of the millisecond field; the unit of every time here *)
MsPerSec == 1000
(* 0.1 s: the margin subtracted from the duration at the clamp, line 104 *)
EOF_MARGIN_MS == 100
(* 86399.999 s: the cap of a cue's end time, line 223 *)
VTT_MAX_MS == 86399999
(* int((86399.999 - 86399) * 1000): the double nearest 86399.999 lies below
   it (86399.99899999999...), so the truncation yields 998, line 234 *)
VTT_MAX_FRAC_MILLIS == 998

(* The response messages of generate() *)
MSG_URL_REQUIRED == "Video URL is required."
MSG_DOWNLOAD == "Failed to download video. Please check the URL or network access."
MSG_DURATION == "Could not get valid video duration. Video might be corrupted or empty."
MSG_NO_THUMBS == "Failed to generate any valid thumbnails. Video might be unreadable or too short for extraction."
MSG_SPRITE == "Failed to create sprite image. Check Render logs for FFmpeg details."
MSG_VTT_AS_SPRITE == MSG_SPRITE
MSG_VTT == "Failed to create VTT file."
MSG_UNEXPECTED_NAN == "An unexpected server error occurred: cannot convert float NaN to integer"
MSG_UNEXPECTED_INF == "An unexpected server error occurred: cannot convert float infinity to integer"
MSG_SUCCESS == "Sprite and VTT generated successfully!"

----------------------------------------------------------------------------
(* Bounds of the model *)

(* frame counts 0..MaxCount are given to the composer and the cue builder *)
MaxCount == 23
(* the frame count of a video a little over 24 hours long (86401..86405 s) *)
LongCount == 17281

(* probed durations, in milliseconds; 23000 gives five frames *)
DurationsMs == {50, 3000, 4500, 5000, 5001, 23000}

----------------------------------------------------------------------------
(* Arithmetic helpers *)

Min(a, b) == IF a <= b THEN a ELSE b
Max(a, b) == IF a >= b THEN a ELSE b

(* math.ceil(a / b) for integers a and b > 0 *)
CeilDiv(a, b) == -((-a) \div b)

(* a float as returned by float(result.stdout.strip()), or None *)
None == [kind |-> "none", ms |-> 0]
NaN == [kind |-> "nan", ms |-> 0]
Inf == [kind |-> "inf", ms |-> 0]
Num(ms) == [kind |-> "num", ms |-> ms]

----------------------------------------------------------------------------
(* get_video_duration / generate: what the orchestrator does with a probe *)

(* line 286: duration is None or duration <= 0 (a NaN compares False) *)
DurationRejected(d) ==
    \/ d.kind = "none"
    \/ d.kind = "num" /\ d.ms <= 0

(* an orchestrator without the short-video adjustment *)
IntervalForVttFixed(d) == THUMBNAIL_INTERVAL

(* lines 290-296: the interval handed to the cue builder, in seconds *)
IntervalForVtt(d) ==
    IF d.kind = "num" /\ d.ms < THUMBNAIL_INTERVAL * MsPerSec
    THEN Max(1, d.ms \div (2 * MsPerSec))
    ELSE THUMBNAIL_INTERVAL

----------------------------------------------------------------------------
(* generate_individual_thumbnails: counting, clamping and formatting *)

(* a sampler that rounds the frame count down *)
NumThumbnailsFloor(dms) == dms \div (THUMBNAIL_INTERVAL * MsPerSec)

(* line 96: math.ceil(duration / THUMBNAIL_INTERVAL) *)
NumThumbnails(dms) == CeilDiv(dms, THUMBNAIL_INTERVAL * MsPerSec)

(* lines 100-104: min(i * THUMBNAIL_INTERVAL, duration - 0.1) *)
ActualTimestamp(k, dms) ==
    Min(k * THUMBNAIL_INTERVAL * MsPerSec, dms - EOF_MARGIN_MS)

(* int((t - math.floor(t)) * 1000) of the exact value t; the cap 86399.999
   is the one fractional value the cue builder formats, and as a double it
   lies below its decimal value *)
FracMillis(t) ==
    IF t = VTT_MAX_MS THEN VTT_MAX_FRAC_MILLIS ELSE t % MsPerSec

(* lines 106-110 and 226-237: the fields of HH:MM:SS.mmm; // and % are
   Python's floored division and modulo, as \div and % are here *)
FormatTime(t) ==
    [hours        |-> t \div (3600 * MsPerSec),
     minutes      |-> (t % (3600 * MsPerSec)) \div (60 * MsPerSec),
     seconds      |-> (t % (60 * MsPerSec)) \div MsPerSec,
     milliseconds |-> FracMillis(t)]

(* lines 104-110: the strings index k can be formatted to.  i * interval
   is an integer and formats exactly; duration - 0.1 is a rounded double,
   and where it lies just below the decimal value the truncations of lines
   106-109 give the string of one millisecond less (22.9 gives
   00:00:22.899) *)
TimestampStrs(k, dms) ==
    IF k * THUMBNAIL_INTERVAL * MsPerSec <= dms - EOF_MARGIN_MS
    THEN {FormatTime(ActualTimestamp(k, dms))}
    ELSE {FormatTime(ActualTimestamp(k, dms)),
          FormatTime(ActualTimestamp(k, dms) - 1)}

(* the time a formatted HH:MM:SS.mmm string denotes, in milliseconds *)
TimeOfStr(f) ==
    ((f.hours * 60 + f.minutes) * 60 + f.seconds) * MsPerSec + f.milliseconds

(* the decimal digits of n >= 0, most significant first, as character codes *)
RECURSIVE Digits(_)
Digits(n) ==
    IF n < 10 THEN <<48 + n>> ELSE Digits(n \div 10) \o <<48 + (n % 10)>>

(* "0" * k *)
RECURSIVE Zeros(_)
Zeros(k) == IF k <= 0 THEN <<>> ELSE <<48>> \o Zeros(k - 1)

(* line 112: f"thumb_{i:04d}.jpg", as character codes; 04d pads to a
   minimum width of four and never truncates *)
ThumbFilename(k) ==
    <<116, 104, 117, 109, 98, 95>>
        \o Zeros(4 - Len(Digits(k))) \o Digits(k)
        \o <<46, 106, 112, 103>>

(* str < str in Python: lexicographic on code points *)
RECURSIVE StrLess(_, _)
StrLess(a, b) ==
    IF b = <<>> THEN FALSE
    ELSE IF a = <<>> THEN TRUE
    ELSE IF Head(a) # Head(b) THEN Head(a) < Head(b)
    ELSE StrLess(Tail(a), Tail(b))

(* the per-frame outcomes of the ffmpeg call of lines 124-143: how
   subprocess.run ended and what it left at thumb_path *)
ExtractOutcomes ==
    { [run |-> "ok",        file |-> "data"],
      [run |-> "ok",        file |-> "empty"],
      [run |-> "ok",        file |-> "absent"],
      [run |-> "error",     file |-> "absent"],
      [run |-> "timeout",   file |-> "data"],
      [run |-> "exception", file |-> "absent"] }

(* a sampler that trusts the exit status and skips the size check *)
FrameKeptAnyFile(o) == o.run = "ok"

(* line 128: the frame is kept when the call returned normally and
   os.path.exists(thumb_path) and os.path.getsize(thumb_path) > 0 *)
FrameKept(o) == o.run = "ok" /\ o.file = "data"

(* a sampler that gives up at the first frame it cannot produce *)
AfterAttemptBreak(k, n, o) == IF FrameKept(o) THEN k + 1 ELSE n

(* lines 99 and 137-143: the index the loop goes on with after attempt k
   of n ended as o; every handler ends in "continue" *)
AfterAttempt(k, n, o) == k + 1

----------------------------------------------------------------------------
(* create_sprite_image: rows and manifest order *)

(* a composer that rounds the row count down *)
NumRowsFloor(n) == Max(1, n \div THUMBS_PER_ROW)

(* line 158: max(1, math.ceil(num_thumbnails / THUMBS_PER_ROW)) *)
NumRows(n) == Max(1, CeilDiv(n, THUMBS_PER_ROW))

(* insert frame k into a list already sorted by file name *)
RECURSIVE InsertByName(_, _)
InsertByName(k, s) ==
    IF s = <<>> THEN <<k>>
    ELSE IF StrLess(ThumbFilename(k), ThumbFilename(Head(s)))
         THEN <<k>> \o s
         ELSE <<Head(s)>> \o InsertByName(k, Tail(s))

(* line 166: sorted(thumbnail_paths); a frame stands for its path, all
   paths share the directory, so the order is that of the file names *)
RECURSIVE SortedPaths(_)
SortedPaths(paths) ==
    IF paths = <<>> THEN <<>>
    ELSE InsertByName(Head(paths), SortedPaths(Tail(paths)))

(* lines 172-183: the tile command run on the manifest *)
TileCommand(paths) ==
    [cols |-> THUMBS_PER_ROW, rows |-> NumRows(Len(paths)),
     inputs |-> SortedPaths(paths)]

(* how the tiling run of line 183 can end, and "open_failed": the
   manifest could not be opened at line 163 *)
ComposeOutcomes ==
    {"ok", "open_failed", "not_found", "error", "timeout", "exception"}

----------------------------------------------------------------------------
(* create_vtt_file: one cue per index *)

(* lines 218-223: start and end of cue k, in milliseconds *)
CueStart(k, interval) == k * interval * MsPerSec

(* a cue builder that wraps the end time at 24 hours instead of capping *)
CueEndWrapped(k, interval) ==
    (CueStart(k, interval) + interval * MsPerSec) % (VTT_MAX_MS + 1)

CueEnd(k, interval) ==
    Min(CueStart(k, interval) + interval * MsPerSec, VTT_MAX_MS)

(* lines 218-248: the block written for index k *)
CueEntry(k, interval) ==
    [start |-> FormatTime(CueStart(k, interval)),
     end   |-> FormatTime(CueEnd(k, interval)),
     x |-> (k % THUMBS_PER_ROW) * THUMB_WIDTH,
     y |-> (k \div THUMBS_PER_ROW) * THUMB_HEIGHT,
     w |-> THUMB_WIDTH,
     h |-> THUMB_HEIGHT]

(* a cue builder whose loop stops one index early *)
VttCuesShort(n, interval) == [k \in 1..(n - 1) |-> CueEntry(k - 1, interval)]

(* lines 217-248: the blocks of a completely written cue file *)
VttCues(n, interval) == [k \in 1..n |-> CueEntry(k - 1, interval)]

(* how the write of lines 214-248 can end: "open_failed" leaves no file,
   "write_failed" leaves the file cut short after the header *)
CueOutcomes == {"ok", "open_failed", "write_failed"}

(* create_vtt_file as a whole: its return value and the file it leaves *)
CreateVttFile(n, interval, o) ==
    IF o = "ok"
    THEN [ret |-> TRUE,
          file |-> [state |-> "complete", cues |-> VttCues(n, interval)]]
    ELSE [ret |-> FALSE,
          file |-> [state |-> IF o = "open_failed" THEN "absent" ELSE "partial",
                    cues |-> <<>>]]

(* create_sprite_image as a whole: its return value, the tile commands it
   ran, the sprite file it leaves and the manifest it leaves *)
SpriteFileAfter(o) == IF o \in {"ok", "timeout"} THEN "data" ELSE "absent"

(* a cleanup that tests for the file and then leaves it *)
RemoveIfExistsKept(f) == f

(* lines 199-204 and 334-347: if os.path.exists(p): os.remove(p) *)
RemoveIfExists(f) == "absent"

CreateSpriteImage(paths, o) ==
    IF paths = <<>>
    THEN [ret |-> FALSE, tiling |-> <<>>, sprite |-> "absent",
          manifest |-> "absent"]
    ELSE IF o = "open_failed"
    THEN [ret |-> FALSE, tiling |-> <<>>, sprite |-> "absent",
          manifest |-> RemoveIfExists("absent")]
    ELSE [ret |-> (o = "ok"), tiling |-> <<TileCommand(paths)>>,
          sprite |-> SpriteFileAfter(o),
          manifest |-> RemoveIfExists("data")]

----------------------------------------------------------------------------
(* generate(): the job *)

NoResponse == [status |-> "none", code |-> 0, message |-> ""]
ErrorResponse(code, msg) == [status |-> "error", code |-> code, message |-> msg]
SuccessResponse == [status |-> "success", code |-> 200, message |-> MSG_SUCCESS]

(* how download_video can end and what it leaves at video_path: a stream
   that breaks after open() leaves a partial or empty file *)
DownloadOutcomes ==
    { [run |-> "ok",            file |-> "data"],
      [run |-> "ok",            file |-> "empty"],
      [run |-> "request_error", file |-> "absent"],
      [run |-> "request_error", file |-> "data"],
      [run |-> "exception",     file |-> "empty"] }

(* a download_video that reports success from its error handlers *)
DownloadSucceededAlways(o) == TRUE

(* lines 50-56: the return value of download_video *)
DownloadSucceeded(o) == o.run = "ok"

(* what get_video_duration can return *)
ProbeResults ==
    {None, NaN, Inf} \cup {Num(d) : d \in DurationsMs \cup {0, -1000}}

(* line 328: str(e) of the error math.ceil raises on a NaN or an infinity *)
UnexpectedMessage(d) ==
    IF d.kind = "nan" THEN MSG_UNEXPECTED_NAN ELSE MSG_UNEXPECTED_INF

(* the frames a list of paths names *)
FramesOf(paths) == {paths[k] : k \in 1..Len(paths)}

----------------------------------------------------------------------------
(* Paths and the file system shared by all requests.  A path is a sequence *)
(* of names below the working directory; a name is its literal parts and,  *)
(* for a frame, its index.                                                 *)

Name(str) == [parts |-> <<str>>, idx |-> -1]
Dot == Name(".")
DotDot == Name("..")

(* lines 16-17 *)
UPLOAD_FOLDER == Name("temp_videos")
THUMBNAIL_FOLDER == Name("temp_thumbnails")
(* lines 28-29 and 161 *)
SPRITE_FILENAME == Name("sprite.jpg")
VTT_FILENAME == Name("sprite.vtt")
MANIFEST_FILENAME == Name("input_thumbs.txt")

(* line 112: f"thumb_{i:04d}.jpg"; different indices, different names *)
ThumbName(k) == [parts |-> <<"thumb_", ".jpg">>, idx |-> k]

(* line 274: f"input_{job_id}.mp4" *)
VideoFilename(job_id) == [parts |-> <<"input_", job_id, ".mp4">>, idx |-> -1]

(* os.path.join of a path and one more name; it does not normalise *)
Join(path, name) == Append(path, name)

(* line 270: os.path.join(THUMBNAIL_FOLDER, job_id) *)
WorkspacePath(job_id) == <<THUMBNAIL_FOLDER, Name(job_id)>>

(* line 275: os.path.join(UPLOAD_FOLDER, video_filename) *)
VideoPath(job_id) == <<UPLOAD_FOLDER, VideoFilename(job_id)>>

(* a composer that keeps its manifest in the folder all jobs share *)
ManifestPathShared(output_path) == <<THUMBNAIL_FOLDER, MANIFEST_FILENAME>>

(* line 161: os.path.join(os.path.dirname(output_path), "input_thumbs.txt") *)
ManifestPath(output_path) ==
    Join(SubSeq(output_path, 1, Len(output_path) - 1), MANIFEST_FILENAME)

Dir == [kind |-> "dir", size |-> "data", writer |-> "app", content |-> <<>>]
File(size, writer, content) ==
    [kind |-> "file", size |-> size, writer |-> writer, content |-> content]

(* the working directory of the application: app.py and templates/ beside
   the two folders that lines 20-21 create; <<DotDot>> is its parent *)
StaticTree ==
    (<<>> :> Dir) @@ (<<DotDot>> :> Dir)
      @@ (<<Name("app.py")>> :> File("data", "app", <<>>))
      @@ (<<Name("templates")>> :> Dir)
      @@ (<<Name("templates"), Name("index.html")>> :> File("data", "app", <<>>))
      @@ (<<UPLOAD_FOLDER>> :> Dir)
      @@ (<<THUMBNAIL_FOLDER>> :> Dir)

(* the directory above a resolved path *)
Parent(path) ==
    IF path = <<>> \/ path[Len(path)] = DotDot
    THEN Append(path, DotDot)
    ELSE SubSeq(path, 1, Len(path) - 1)

(* what the operating system resolves a path to in the tree t, walking it
   name by name from cur: "." stays, ".." goes up, and a name is looked up
   only in an existing directory *)
RECURSIVE Walk(_, _, _)
Walk(t, cur, rest) ==
    IF rest = <<>> THEN [found |-> cur \in DOMAIN t, path |-> cur]
    ELSE IF cur \notin DOMAIN t \/ t[cur].kind # "dir"
         THEN [found |-> FALSE, path |-> cur]
    ELSE IF Head(rest) = Dot THEN Walk(t, cur, Tail(rest))
    ELSE IF Head(rest) = DotDot THEN Walk(t, Parent(cur), Tail(rest))
    ELSE Walk(t, Append(cur, Head(rest)), Tail(rest))

Resolve(t, path) == Walk(t, <<>>, path)

(* line 362: os.path.exists(p) and os.path.isfile(p) *)
IsFile(t, path) ==
    LET r == Resolve(t, path) IN r.found /\ t[r.path].kind = "file"

(* lines 356-367: serve_thumbnail_assets(job_id, filename) in the tree t;
   "served" is the file send_file delivers *)
ServeThumbnailAssets(t, job_id, filename) ==
    LET full_path == Join(Join(<<THUMBNAIL_FOLDER>>, job_id), filename) IN
    IF ~IsFile(t, full_path)
    THEN [status |-> 404, job_id |-> job_id, filename |-> filename,
          served |-> <<>>]
    ELSE [status |-> 200, job_id |-> job_id, filename |-> filename,
          served |-> Resolve(t, full_path).path]

NoServe == [status |-> 0, job_id |-> Name(""), filename |-> Name(""),
            served |-> <<>>]
NoJobs == <<>>

(* no file of the job exists yet: a fresh uuid names its workspace and its
   source video, lines 269-275 *)
NoFiles ==
    /\ video = "absent"
    /\ thumb_files = <<>>
    /\ manifest = "absent"
    /\ sprite = "absent"
    /\ vtt = [state |-> "absent", cues |-> <<>>]

(* nothing has been called and nothing answered *)
NothingRun ==
    /\ video_url = "unset"
    /\ duration = None
    /\ i = 0
    /\ requested = <<>>
    /\ outcomes = <<>>
    /\ tiling = <<>>
    /\ vtt_calls = <<>>
    /\ stages = <<>>
    /\ download_result = "none"
    /\ compose_result = "none"
    /\ cue_result = "none"
    /\ response = NoResponse

Init ==
    /\ pc = "request"
    /\ fs = StaticTree
    /\ jobs = NoJobs
    /\ serve = NoServe
    /\ NoFiles
    /\ NothingRun
    /\ thumbnail_interval_for_vtt = 0
    /\ num_thumbnails = 0
    /\ thumbnail_paths = <<>>

(* lines 263-278 *)
Request ==
    /\ pc = "request"
    /\ \E u \in {"", "http://host/video.mp4"} :
          /\ video_url' = u
          /\ IF u = ""
             THEN /\ response' = ErrorResponse(400, MSG_URL_REQUIRED)
                  /\ pc' = "done"
             ELSE /\ pc' = "download"
                  /\ UNCHANGED response
    /\ thumbnail_paths' = <<>>
    /\ UNCHANGED <<video, thumb_files, manifest, sprite, vtt, duration,
                   thumbnail_interval_for_vtt, num_thumbnails, i, requested,
                   outcomes, tiling, vtt_calls, stages, download_result,
                   compose_result, cue_result>>
    /\ UNCHANGED <<fs, jobs, serve>>

(* lines 281-283 with download_video *)
Download ==
    /\ pc = "download"
    /\ \E o \in DownloadOutcomes :
          /\ download_result' = o.run
          /\ video' = o.file
          /\ IF DownloadSucceeded(o)
             THEN /\ pc' = "probe"
                  /\ UNCHANGED response
             ELSE /\ response' = ErrorResponse(500, MSG_DOWNLOAD)
                  /\ pc' = "finally"
    /\ stages' = Append(stages, "download")
    /\ UNCHANGED <<video_url, thumb_files, manifest, sprite, vtt, duration,
                   thumbnail_interval_for_vtt, num_thumbnails, i, requested,
                   outcomes, thumbnail_paths, tiling, vtt_calls,
                   compose_result, cue_result>>
    /\ UNCHANGED <<fs, jobs, serve>>

(* lines 285-296 with get_video_duration *)
Probe ==
    /\ pc = "probe"
    /\ \E d \in ProbeResults :
          /\ duration' = d
          /\ IF DurationRejected(d)
             THEN /\ response' = ErrorResponse(500, MSG_DURATION)
                  /\ pc' = "finally"
                  /\ UNCHANGED thumbnail_interval_for_vtt
             ELSE /\ thumbnail_interval_for_vtt' = IntervalForVtt(d)
                  /\ pc' = "sample_start"
                  /\ UNCHANGED response
    /\ stages' = Append(stages, "probe")
    /\ UNCHANGED <<video_url, video, thumb_files, manifest, sprite, vtt,
                   num_thumbnails, i, requested, outcomes, thumbnail_paths,
                   tiling, vtt_calls, download_result, compose_result,
                   cue_result>>
    /\ UNCHANGED <<fs, jobs, serve>>

(* lines 299 and 95-97: the call of the sampler; math.ceil raises on a NaN
   or an infinity, which generate() catches at line 328 *)
SampleStart ==
    /\ pc = "sample_start"
    /\ IF duration.kind = "num"
       THEN /\ num_thumbnails' = NumThumbnails(duration.ms)
            /\ i' = 0
            /\ pc' = "extract"
            /\ UNCHANGED response
       ELSE /\ response' = ErrorResponse(500, UnexpectedMessage(duration))
            /\ pc' = "finally"
            /\ UNCHANGED <<num_thumbnails, i>>
    /\ stages' = Append(stages, "sample")
    /\ UNCHANGED <<video_url, video, thumb_files, manifest, sprite, vtt,
                   duration, thumbnail_interval_for_vtt, requested, outcomes,
                   thumbnail_paths, tiling, vtt_calls, download_result,
                   compose_result, cue_result>>
    /\ UNCHANGED <<fs, jobs, serve>>

(* lines 99-143: one pass of the loop *)
ExtractFrame ==
    /\ pc = "extract"
    /\ i < num_thumbnails
    /\ \E o \in ExtractOutcomes :
          /\ outcomes' = Append(outcomes, o)
          /\ i' = AfterAttempt(i, num_thumbnails, o)
          /\ thumb_files' = IF o.file = "absent" THEN thumb_files
                            ELSE (i :> o.file) @@ thumb_files
          /\ thumbnail_paths' = IF FrameKept(o)
                                THEN Append(thumbnail_paths, i)
                                ELSE thumbnail_paths
    /\ \E f \in TimestampStrs(i, duration.ms) :
          requested' = Append(requested,
                           [index |-> i,
                            at    |-> ActualTimestamp(i, duration.ms),
                            str   |-> f])
    /\ UNCHANGED <<pc, video_url, video, manifest, sprite, vtt, duration,
                   thumbnail_interval_for_vtt, num_thumbnails, tiling,
                   vtt_calls, stages, download_result, compose_result,
                   cue_result, response>>
    /\ UNCHANGED <<fs, jobs, serve>>

(* lines 144 and 301-302: the loop is over *)
SampleReturn ==
    /\ pc = "extract"
    /\ i >= num_thumbnails
    /\ IF thumbnail_paths = <<>>
       THEN /\ response' = ErrorResponse(500, MSG_NO_THUMBS)
            /\ pc' = "finally"
       ELSE /\ pc' = "compose"
            /\ UNCHANGED response
    /\ UNCHANGED <<video_url, video, thumb_files, manifest, sprite, vtt,
                   duration, thumbnail_interval_for_vtt, num_thumbnails, i,
                   requested, outcomes, thumbnail_paths, tiling, vtt_calls,
                   stages, download_result, compose_result, cue_result>>
    /\ UNCHANGED <<fs, jobs, serve>>

(* lines 304-307 with create_sprite_image *)
Compose ==
    /\ pc = "compose"
    /\ \E o \in ComposeOutcomes :
          LET r == CreateSpriteImage(thumbnail_paths, o) IN
          /\ compose_result' = o
          /\ tiling' = tiling \o r.tiling
          /\ sprite' = r.sprite
          /\ manifest' = r.manifest
          /\ IF r.ret
             THEN /\ pc' = "cue"
                  /\ UNCHANGED response
             ELSE /\ response' = ErrorResponse(500, MSG_SPRITE)
                  /\ pc' = "finally"
    /\ stages' = Append(stages, "compose")
    /\ UNCHANGED <<video_url, video, thumb_files, vtt, duration,
                   thumbnail_interval_for_vtt, num_thumbnails, i, requested,
                   outcomes, thumbnail_paths, vtt_calls, download_result,
                   cue_result>>
    /\ UNCHANGED <<fs, jobs, serve>>

(* lines 309-326 with create_vtt_file *)
BuildCue ==
    /\ pc = "cue"
    /\ \E o \in CueOutcomes :
          LET r == CreateVttFile(Len(thumbnail_paths),
                                 thumbnail_interval_for_vtt, o) IN
          /\ cue_result' = o
          /\ vtt' = r.file
          /\ IF r.ret
             THEN response' = SuccessResponse
             ELSE response' = ErrorResponse(500, MSG_VTT)
    /\ vtt_calls' = Append(vtt_calls,
                        [n |-> Len(thumbnail_paths),
                         interval |-> thumbnail_interval_for_vtt])
    /\ stages' = Append(stages, "cue")
    /\ pc' = "finally"
    /\ UNCHANGED <<video_url, video, thumb_files, manifest, sprite, duration,
                   thumbnail_interval_for_vtt, num_thumbnails, i, requested,
                   outcomes, thumbnail_paths, tiling, download_result,
                   compose_result>>
    /\ UNCHANGED <<fs, jobs, serve>>

(* lines 331-352: the finally block *)
Cleanup ==
    /\ pc = "finally"
    /\ video' = RemoveIfExists(video)
    /\ thumb_files' = [k \in DOMAIN thumb_files \ FramesOf(thumbnail_paths)
                          |-> thumb_files[k]]
    /\ pc' = "done"
    /\ UNCHANGED <<video_url, manifest, sprite, vtt, duration,
                   thumbnail_interval_for_vtt, num_thumbnails, i, requested,
                   outcomes, thumbnail_paths, tiling, vtt_calls, stages,
                   download_result, compose_result, cue_result, response>>
    /\ UNCHANGED <<fs, jobs, serve>>

Next ==
    \/ Request
    \/ Download
    \/ Probe
    \/ SampleStart
    \/ ExtractFrame
    \/ SampleReturn
    \/ Compose
    \/ BuildCue
    \/ Cleanup

Spec == Init /\ [][Next]_vars

----------------------------------------------------------------------------
(* Properties of the job (specification Spec) *)

JobStarted == video_url \notin {"unset", ""}
JobTerminated == pc = "done" /\ JobStarted

(* the sampler has returned to generate() *)
SamplerReturned ==
    /\ Len(stages) >= 3
    /\ duration.kind = "num"
    /\ pc \in {"compose", "cue", "finally", "done"}

(* attempt k (1-based) produced a frame: the call returned normally and
   left a non-empty file *)
Survived(k) == outcomes[k].run = "ok" /\ outcomes[k].file = "data"
NoFrameSurvived == \A k \in 1..Len(outcomes) : ~Survived(k)

(* C1: once a started job has terminated, the source video, every frame
   file the extraction calls wrote and the manifest are gone; only the
   sprite and the cue file may remain *)
C1_CleanupInvariant ==
    JobTerminated =>
        /\ video = "absent"
        /\ DOMAIN thumb_files = {}
        /\ manifest = "absent"

StageOrder == <<"download", "probe", "sample", "compose", "cue">>

(* stage k of StageOrder succeeded, told by what its collaborator did *)
StageSucceeded(k) ==
    CASE k = 1 -> download_result = "ok"
      [] k = 2 -> duration.kind # "none"
                  /\ ~(duration.kind = "num" /\ duration.ms <= 0)
      [] k = 3 -> SamplerReturned /\ ~NoFrameSurvived
      [] k = 4 -> compose_result = "ok"
      [] k = 5 -> cue_result = "ok"

(* C2: the stages start in the order download, probe, sample, compose,
   cue, each at most once and only after every earlier stage succeeded; a
   terminated job answers success exactly when all five succeeded, and an
   error otherwise *)
C2_StageOrdering ==
    /\ Len(stages) <= Len(StageOrder)
    /\ \A k \in 1..Len(stages) :
          /\ stages[k] = StageOrder[k]
          /\ \A j \in 1..(k - 1) : StageSucceeded(j)
    /\ JobTerminated =>
          /\ response.status \in {"success", "error"}
          /\ response.status = "success" <=>
                (Len(stages) = 5 /\ \A k \in 1..5 : StageSucceeded(k))

(* a job stopped by a failed composition: four stages started, no fifth *)
C2_Witness ==
    /\ JobTerminated
    /\ stages = <<"download", "probe", "sample", "compose">>
    /\ compose_result = "timeout"
    /\ response = ErrorResponse(500, MSG_SPRITE)

(* C3: while no frame has survived extraction, no tile command and no cue
   builder has run and neither sprite nor cue file exists; the job, once
   terminated, has reported failure *)
C3_ZeroFrames ==
    NoFrameSurvived =>
        /\ tiling = <<>>
        /\ vtt_calls = <<>>
        /\ sprite = "absent"
        /\ vtt.state = "absent"
        /\ response.status # "success"
        /\ JobTerminated => response.status = "error"

(* two frames were requested, both failed, and the job has ended *)
C3_Witness ==
    /\ JobTerminated
    /\ Len(outcomes) = 2
    /\ NoFrameSurvived
    /\ outcomes[1].file = "empty"
    /\ response = ErrorResponse(500, MSG_NO_THUMBS)

(* ceil(d / k) told without division: the least n with n * k >= d *)
CeilOf(d, k) == CHOOSE n \in 0..(d + 1) : n * k >= d /\ (n - 1) * k < d

(* what index k (0-based) must request for a duration of dms *)
ExpectedTimestamp(k, dms) ==
    IF k * 5000 <= dms - 100 THEN k * 5000 ELSE dms - 100

(* C8: the sampler requests one timestamp per index 0, 1, ... in
   increasing order, the k-th being min(k * 5 s, d - 0.1 s), none beyond
   d - 0.1 s, and ceil(d / 5 s) of them once it has returned *)
C8_RequestedTimestamps ==
    (duration.kind = "num" /\ duration.ms > 0) =>
        /\ \A k \in 1..Len(requested) :
              /\ requested[k].index = k - 1
              /\ requested[k].at = ExpectedTimestamp(k - 1, duration.ms)
              /\ requested[k].at <= duration.ms - 100
        /\ Len(requested) <= CeilOf(duration.ms, 5000)
        /\ SamplerReturned => Len(requested) = CeilOf(duration.ms, 5000)

(* a 23 s video: exactly 0, 5, 10, 15 and 20 s were requested *)
C8_Witness ==
    /\ duration = Num(23000)
    /\ SamplerReturned
    /\ [k \in 1..Len(requested) |-> requested[k].at]
           = <<0, 5000, 10000, 15000, 20000>>

(* the cue interval the orchestrator must choose for a duration of dms *)
ExpectedCueInterval(dms) ==
    IF dms < 5000
    THEN (IF dms \div 2000 >= 1 THEN dms \div 2000 ELSE 1)
    ELSE 5

(* C9: the cue builder is given max(1, floor(d / 2)) for d < 5 s and 5
   otherwise, while the sampler keeps stepping by 5 s; a 3 s video gets
   one request at t = 0 and the cue interval 1 *)
C9_IntervalAdjustment ==
    /\ \A c \in 1..Len(vtt_calls) :
          vtt_calls[c].interval = ExpectedCueInterval(duration.ms)
    /\ (duration.kind = "num" /\ Len(stages) >= 3) =>
          thumbnail_interval_for_vtt = ExpectedCueInterval(duration.ms)
    /\ \A k \in 1..Len(requested) :
          requested[k].at \in {(k - 1) * 5000, duration.ms - 100}
    /\ SamplerReturned =>
          (Len(requested) - 1) * 5000 < duration.ms
    /\ (duration = Num(3000) /\ SamplerReturned) =>
          /\ Len(requested) = 1
          /\ requested[1].at = 0
          /\ thumbnail_interval_for_vtt = 1

(* a 3 s video reached the cue builder: one frame, interval 1 *)
C9_Witness ==
    /\ duration = Num(3000)
    /\ vtt_calls = <<[n |-> 1, interval |-> 1]>>
    /\ Len(requested) = 1
    /\ requested[1].at = 0

(* the 0-based indices of the attempts 1..n that produced a frame, in
   increasing order *)
RECURSIVE SurvivorsUpTo(_)
SurvivorsUpTo(n) ==
    IF n = 0 THEN <<>>
    ELSE IF Survived(n) THEN Append(SurvivorsUpTo(n - 1), n - 1)
         ELSE SurvivorsUpTo(n - 1)

(* C10: whatever the earlier outcomes, the sampler attempts every index
   once, in increasing order, returns exactly the frames that were
   produced, in increasing index order, and the job fails at the sampling
   stage only if no frame was produced *)
C10_PartialFailure ==
    /\ Len(outcomes) = Len(requested)
    /\ \A k \in 1..Len(requested) : requested[k].index = k - 1
    /\ thumbnail_paths = SurvivorsUpTo(Len(outcomes))
    /\ \A k \in 1..(Len(thumbnail_paths) - 1) :
          thumbnail_paths[k] < thumbnail_paths[k + 1]
    /\ SamplerReturned => Len(outcomes) = CeilOf(duration.ms, 5000)
    /\ response.message = MSG_NO_THUMBS <=>
          (SamplerReturned /\ NoFrameSurvived)

(* five attempts, the first, third and fifth failed in three different
   ways, and frames 1 and 3 were returned *)
C10_Witness ==
    /\ SamplerReturned
    /\ Len(outcomes) = 5
    /\ outcomes[1].run = "error"
    /\ outcomes[3].run = "timeout"
    /\ outcomes[5].file = "empty"
    /\ thumbnail_paths = <<1, 3>>
    /\ pc = "compose"

----------------------------------------------------------------------------
(* The composer and the cue builder as functions of the surviving frames   *)
(* (specification GridSpec): create_sprite_image and create_vtt_file are   *)
(* applied to one list of surviving frames, as generate() applies them at  *)
(* lines 306 and 313.                                                      *)

(* the increasing sequence of the elements of a finite set of integers *)
RECURSIVE SeqOfSet(_)
SeqOfSet(S) ==
    IF S = {} THEN <<>>
    ELSE LET m == CHOOSE x \in S : \A y \in S : x <= y
         IN <<m>> \o SeqOfSet(S \ {m})

(* frame indices on both sides of the widths 3/4 and 4/5 of their decimal
   form; index 10000 is the frame at 50000 s *)
WideIndices == {0, 999, 1000, 9999, 10000, 10001}

(* the lists generate_individual_thumbnails can return: all of 0..n-1, or
   some frames missing; always in increasing index order *)
SurvivingLists ==
    {SeqOfSet(0..(n - 1)) : n \in 0..MaxCount}
        \cup {SeqOfSet(S) : S \in SUBSET (0..3)}
        \cup {SeqOfSet(S) : S \in SUBSET WideIndices}

(* the intervals generate() hands to create_vtt_file, lines 294-296 *)
CueIntervals == {1, 2, THUMBNAIL_INTERVAL}

GridInit ==
    /\ pc = "call_compose"
    /\ fs = StaticTree
    /\ jobs = NoJobs
    /\ serve = NoServe
    /\ NoFiles
    /\ NothingRun
    /\ num_thumbnails = 0
    /\ thumbnail_paths \in SurvivingLists
    /\ thumbnail_interval_for_vtt \in CueIntervals

(* create_sprite_image(thumbnail_paths, sprite_output_path) *)
FnCompose ==
    /\ pc = "call_compose"
    /\ \E o \in ComposeOutcomes :
          LET r == CreateSpriteImage(thumbnail_paths, o) IN
          /\ compose_result' = o
          /\ tiling' = tiling \o r.tiling
          /\ sprite' = r.sprite
          /\ manifest' = r.manifest
    /\ pc' = "call_cue"
    /\ UNCHANGED <<video_url, video, thumb_files, vtt, duration,
                   thumbnail_interval_for_vtt, num_thumbnails, i, requested,
                   outcomes, thumbnail_paths, vtt_calls, stages,
                   download_result, cue_result, response>>
    /\ UNCHANGED <<fs, jobs, serve>>

(* create_vtt_file(dir, len(thumbnail_paths), interval, url) *)
FnBuildCue ==
    /\ pc = "call_cue"
    /\ \E o \in CueOutcomes :
          /\ cue_result' = o
          /\ vtt' = CreateVttFile(Len(thumbnail_paths),
                                  thumbnail_interval_for_vtt, o).file
    /\ vtt_calls' = Append(vtt_calls,
                        [n |-> Len(thumbnail_paths),
                         interval |-> thumbnail_interval_for_vtt])
    /\ pc' = "returned"
    /\ UNCHANGED <<video_url, video, thumb_files, manifest, sprite, duration,
                   thumbnail_interval_for_vtt, num_thumbnails, i, requested,
                   outcomes, thumbnail_paths, tiling, stages,
                   download_result, compose_result, response>>
    /\ UNCHANGED <<fs, jobs, serve>>

GridNext ==
    \/ FnCompose
    \/ FnBuildCue

GridSpec == GridInit /\ [][GridNext]_vars

----------------------------------------------------------------------------
(* The cue builder as a function of (num_thumbnails, interval)             *)
(* (specification VttSpec), up to the frame count of a 24 hour video.      *)

FrameCounts == (0..MaxCount) \cup {LongCount - 1, LongCount}

VttInit ==
    /\ pc = "call_vtt"
    /\ fs = StaticTree
    /\ jobs = NoJobs
    /\ serve = NoServe
    /\ NoFiles
    /\ NothingRun
    /\ thumbnail_paths = <<>>
    /\ num_thumbnails \in FrameCounts
    /\ thumbnail_interval_for_vtt \in CueIntervals

(* create_vtt_file(dir, num_thumbnails, interval, url) *)
VttBuild ==
    /\ pc = "call_vtt"
    /\ \E o \in CueOutcomes :
          /\ cue_result' = o
          /\ vtt' = CreateVttFile(num_thumbnails,
                                  thumbnail_interval_for_vtt, o).file
    /\ vtt_calls' = Append(vtt_calls,
                        [n |-> num_thumbnails,
                         interval |-> thumbnail_interval_for_vtt])
    /\ pc' = "returned"
    /\ UNCHANGED <<video_url, video, thumb_files, manifest, sprite, duration,
                   thumbnail_interval_for_vtt, num_thumbnails, i, requested,
                   outcomes, thumbnail_paths, tiling, stages,
                   download_result, compose_result, response>>
    /\ UNCHANGED <<fs, jobs, serve>>

VttNext == VttBuild

VttSpec == VttInit /\ [][VttNext]_vars

----------------------------------------------------------------------------
(* Properties of the composer and the cue builder (GridSpec, VttSpec) *)

(* the tile command ran and the cue file was written completely *)
BothProduced == Len(tiling) = 1 /\ vtt.state = "complete"

(* max(1, ceil(n / 10)) told without division *)
RowsFor(n) ==
    IF n <= 10 THEN 1
    ELSE CHOOSE r \in 1..n : r * 10 >= n /\ (r - 1) * 10 < n

(* C4: with n >= 1 surviving frames the sprite is tiled 10 columns wide and
   max(1, ceil(n / 10)) rows high, and cue pos addresses the 160x90 cell at
   column pos mod 10 and row pos div 10, the row-major cell of tile pos,
   which lies inside that grid *)
C4_GridGeometry ==
    BothProduced =>
        LET n == Len(thumbnail_paths)
            t == tiling[1]
        IN /\ n >= 1
           /\ t.cols = 10
           /\ t.rows = RowsFor(n)
           /\ Len(t.inputs) = n
           /\ Len(vtt.cues) = n
           /\ \A pos \in 0..(n - 1) :
                 LET c == vtt.cues[pos + 1] IN
                 /\ c.x = (pos % 10) * 160
                 /\ c.y = (pos \div 10) * 90
                 /\ c.w = 160 /\ c.h = 90
                 /\ pos % 10 < t.cols
                 /\ pos \div 10 < t.rows
                 /\ c.x + c.w <= t.cols * 160
                 /\ c.y + c.h <= t.rows * 90

(* 23 frames: three rows, the last cue in column 2 of row 2 *)
C4_Witness ==
    /\ BothProduced
    /\ Len(thumbnail_paths) = 23
    /\ tiling[1].rows = 3
    /\ vtt.cues[23].x = 320
    /\ vtt.cues[23].y = 180

(* C5: the k-th line of the manifest names the k-th surviving frame in
   increasing index order, the frame cue k addresses *)
C5_ManifestOrder ==
    \A t \in 1..Len(tiling) :
        /\ Len(tiling[t].inputs) = Len(thumbnail_paths)
        /\ \A k \in 1..Len(thumbnail_paths) :
              tiling[t].inputs[k] = thumbnail_paths[k]

(* C6: no start time and no end time written to the cue file exceeds
   86399.999 s *)
C6_TimestampsCapped ==
    \A k \in 1..Len(vtt.cues) :
        /\ TimeOfStr(vtt.cues[k].start) <= 86399999
        /\ TimeOfStr(vtt.cues[k].end) <= 86399999

(* C7: the written start times and the written end times are
   non-decreasing from one cue to the next *)
C7_Monotonic ==
    \A k \in 1..(Len(vtt.cues) - 1) :
        /\ TimeOfStr(vtt.cues[k + 1].start) >= TimeOfStr(vtt.cues[k].start)
        /\ TimeOfStr(vtt.cues[k + 1].end) >= TimeOfStr(vtt.cues[k].end)

(* a cue file long enough for the end times to reach the cap: the ends
   rise up to cue 17280 and stay there *)
C7_Witness ==
    /\ vtt.state = "complete"
    /\ Len(vtt.cues) = 17281
    /\ thumbnail_interval_for_vtt = 5
    /\ TimeOfStr(vtt.cues[17279].end) < TimeOfStr(vtt.cues[17280].end)
    /\ vtt.cues[17280].end = vtt.cues[17281].end
    /\ vtt.cues[17280].end.hours = 23


(* C13: the cue file has one entry per surviving frame, in frame order,
   as many as tiles were given to the composer; a single surviving frame
   gives one row, and one cue, whose region is the one cell at column 0 of
   that row (the tile command itself stays 10 columns wide) *)
C13_OneCuePerFrame ==
    BothProduced =>
        LET n == Len(thumbnail_paths)
            t == tiling[1]
        IN /\ Len(vtt.cues) = n
           /\ Len(t.inputs) = n
           /\ {t.inputs[k] : k \in 1..n} = {thumbnail_paths[k] : k \in 1..n}
           /\ \A k \in 1..n :
                 /\ vtt.cues[k].x \div 160 + 10 * (vtt.cues[k].y \div 90) = k - 1
                 /\ vtt.cues[k].start.hours * 3600
                      + vtt.cues[k].start.minutes * 60
                      + vtt.cues[k].start.seconds
                        = (k - 1) * thumbnail_interval_for_vtt
           /\ n = 1 =>
                 /\ t.rows = 1
                 /\ vtt.cues = <<vtt.cues[1]>>
                 /\ vtt.cues[1].x = 0 /\ vtt.cues[1].y = 0
                 /\ vtt.cues[1].w = 160 /\ vtt.cues[1].h = 90

(* the one surviving frame is frame 9999: one tile, one row, one cue *)
C13_Witness ==
    /\ BothProduced
    /\ thumbnail_paths = <<9999>>
    /\ tiling[1].inputs = <<9999>>
    /\ tiling[1].rows = 1
    /\ Len(vtt.cues) = 1

----------------------------------------------------------------------------
(* Properties of the job, continued (specification Spec) *)

(* what a terminated job that failed has answered, by the first stage that
   failed *)
C14_MessageOfStage ==
    (JobTerminated /\ response.status = "error") =>
        /\ response.code = 500
        /\ download_result # "ok" => response.message = MSG_DOWNLOAD
        /\ (download_result = "ok" /\ ~StageSucceeded(2)) =>
              response.message = MSG_DURATION
        /\ (Len(stages) = 3 /\ SamplerReturned) =>
              response.message = MSG_NO_THUMBS
        /\ (Len(stages) = 3 /\ ~SamplerReturned) =>
              response.message \in {MSG_UNEXPECTED_NAN, MSG_UNEXPECTED_INF}
        /\ Len(stages) = 4 => response.message = MSG_SPRITE
        /\ Len(stages) = 5 => response.message = MSG_VTT
        /\ Cardinality({MSG_DOWNLOAD, MSG_DURATION, MSG_NO_THUMBS,
                        MSG_SPRITE, MSG_VTT,
                        MSG_UNEXPECTED_NAN, MSG_UNEXPECTED_INF}) = 7

(* C14: a failed job answers one error response, never replaced once
   given, whose message is that of the first stage that failed; the
   messages of a failed download, a missing or non-positive duration, zero
   surviving frames, a failed composition and a failed cue build are
   pairwise different (and differ from that of an unexpected error) *)
C14_DistinctMessages ==
    /\ []C14_MessageOfStage
    /\ [][response # NoResponse => response' = response]_vars

(* the cue build failed after four successful stages *)
C14_Witness ==
    /\ JobTerminated
    /\ cue_result = "write_failed"
    /\ response = ErrorResponse(500, MSG_VTT)

(* C17: for a positive duration every requested seek time is >= 0 and its
   HH:MM:SS.mmm string has hours >= 0, minutes and seconds in 0..59 and
   milliseconds in 0..999 *)
C17_SeekTimesInRange ==
    (duration.kind = "num" /\ duration.ms > 0) =>
        \A k \in 1..Len(requested) :
            /\ requested[k].at >= 0
            /\ requested[k].str.hours >= 0
            /\ requested[k].str.minutes \in 0..59
            /\ requested[k].str.seconds \in 0..59
            /\ requested[k].str.milliseconds \in 0..999

----------------------------------------------------------------------------
(* Properties of the composer and the cue builder, continued *)

(* create_sprite_image has returned (GridSpec) *)
ComposerReturned == pc \in {"call_cue", "returned"} /\ compose_result # "none"

(* C15: once create_sprite_image has returned for a non-empty list of
   frames, however the tiling tool ended, input_thumbs.txt is not in the
   workspace *)
C15_ManifestRemoved ==
    (ComposerReturned /\ thumbnail_paths # <<>>) => manifest = "absent"

(* the tiling tool timed out on a manifest of two frames *)
C15_Witness ==
    /\ ComposerReturned
    /\ compose_result = "timeout"
    /\ Len(tiling) = 1
    /\ Len(tiling[1].inputs) = 2
    /\ manifest = "absent"

(* C16: in every cue the written end time is strictly greater than the
   written start time *)
C16_EndAfterStart ==
    \A k \in 1..Len(vtt.cues) :
        TimeOfStr(vtt.cues[k].end) > TimeOfStr(vtt.cues[k].start)

----------------------------------------------------------------------------
(* Asset retrieval (specification ServeSpec): requests for                 *)
(* /thumbnails/<job_id>/<filename> against the trees jobs leave behind.    *)

(* the job ids uuid4 has given out *)
JobIds == {"u1", "u2"}

(* what a finished job can leave in its workspace, and a running job in
   both folders *)
WorkspaceOf(job_id, names) ==
    (WorkspacePath(job_id) :> Dir)
      @@ [p \in {Join(WorkspacePath(job_id), n) : n \in names}
            |-> File("data", job_id, <<>>)]

ServeTrees ==
    { WorkspaceOf("u1", n1) @@ WorkspaceOf("u2", n2) @@ v @@ StaticTree :
        n1 \in {{SPRITE_FILENAME, VTT_FILENAME},
                {SPRITE_FILENAME, VTT_FILENAME, ThumbName(0)}},
        n2 \in {{}, {ThumbName(0), ThumbName(1)}, {SPRITE_FILENAME}},
        v  \in {<<>>, VideoPath("u2") :> File("data", "u2", <<>>)} }

(* the path segments a client can put into the URL; the route's converters
   accept any segment without a slash, "." and ".." included *)
RequestSegments ==
    {Dot, DotDot, SPRITE_FILENAME, VTT_FILENAME, ThumbName(0),
     Name("u1"), Name("u2"), Name("u3"), Name("app.py"),
     UPLOAD_FOLDER, THUMBNAIL_FOLDER, VideoFilename("u2")}

ServeInit ==
    /\ pc = "serving"
    /\ jobs = NoJobs
    /\ serve = NoServe
    /\ NoFiles
    /\ NothingRun
    /\ thumbnail_interval_for_vtt = 0
    /\ num_thumbnails = 0
    /\ thumbnail_paths = <<>>
    /\ fs \in ServeTrees

(* lines 356-367 *)
Serve ==
    /\ pc = "serving"
    /\ \E job_id \in RequestSegments, filename \in RequestSegments :
          serve' = ServeThumbnailAssets(fs, job_id, filename)
    /\ UNCHANGED <<fs, jobs>>
    /\ UNCHANGED job_vars

ServeNext == Serve

ServeSpec == ServeInit /\ [][ServeNext]_vars

(* C11: a request is answered with a file only if that file lies in the
   workspace THUMBNAIL_FOLDER/<job_id> of the job the request names; every
   request that resolves elsewhere is answered not-found *)
C11_ServedInsideWorkspace ==
    serve.status = 200 =>
        /\ Len(serve.served) = 3
        /\ serve.served[1] = THUMBNAIL_FOLDER
        /\ serve.served[2] = serve.job_id
        /\ serve.served[2] \in {Name(id) : id \in JobIds}

----------------------------------------------------------------------------
(* Two jobs at once (specification ConcSpec): generate() runs in two       *)
(* requests whose steps interleave at every access to the shared file      *)
(* system fs.  A file records the job id of its last writer.               *)

Slots == {1, 2}

(* the collaborators' outcomes the two jobs draw from *)
ConcDownloadOutcomes == DownloadOutcomes
ConcProbeResults == {None, Num(3000), Num(5001)}
ConcExtractOutcomes ==
    {o \in ExtractOutcomes : o.run \in {"ok", "timeout", "error"}}
ConcComposeOutcomes == {"ok", "timeout", "error", "open_failed"}
ConcCueOutcomes == {"ok", "write_failed"}

(* lines 263-278: the locals of generate() before the try *)
NewJob ==
    [pc |-> "request", job_id |-> "", duration |-> None, interval |-> 0,
     num |-> 0, i |-> 0, paths |-> <<>>, outs |-> <<>>,
     download |-> "none", compose |-> "none", tool |-> "none",
     cue |-> "none", tile |-> <<>>, response |-> NoResponse, touched |-> {}]

(* os.remove(p), and open(p, 'w') with what is written *)
Remove(t, p) == [q \in DOMAIN t \ {p} |-> t[q]]
Write(t, p, f) == (p :> f) @@ t
(* what a collaborator leaves at p: nothing, or a file of that size *)
Leave(t, p, size, writer) ==
    IF size = "absent" THEN t ELSE Write(t, p, File(size, writer, <<>>))

(* line 113: os.path.join(output_dir, thumb_filename) *)
ThumbPath(job_id, k) == Join(WorkspacePath(job_id), ThumbName(k))
(* line 305 *)
SpritePath(job_id) == Join(WorkspacePath(job_id), SPRITE_FILENAME)
(* line 212 *)
VttPath(job_id) == Join(WorkspacePath(job_id), VTT_FILENAME)

ConcInit ==
    /\ pc = "jobs"
    /\ fs = StaticTree
    /\ NoFiles
    /\ NothingRun
    /\ serve = NoServe
    /\ thumbnail_interval_for_vtt = 0
    /\ num_thumbnails = 0
    /\ thumbnail_paths = <<>>
    /\ jobs = [j \in Slots |-> NewJob]

(* job j goes on as record r, having accessed the paths ps *)
Step(j, r, ps) ==
    jobs' = [jobs EXCEPT ![j] = [r EXCEPT !.touched = @ \cup ps]]

(* the return statements of generate() lead into the finally block *)
Fail(r, msg) ==
    [r EXCEPT !.response = ErrorResponse(500, msg), !.pc = "remove_video"]

(* lines 269-278: uuid4 gives an id no other job has *)
JRequest(j) ==
    /\ jobs[j].pc = "request"
    /\ \E id \in JobIds \ {jobs[k].job_id : k \in Slots} :
          /\ fs' = Write(fs, WorkspacePath(id), Dir)
          /\ Step(j, [jobs[j] EXCEPT !.job_id = id, !.pc = "download"],
                  {WorkspacePath(id)})

(* lines 281-283 *)
JDownload(j) ==
    LET r == jobs[j] IN
    /\ r.pc = "download"
    /\ \E o \in ConcDownloadOutcomes :
          /\ fs' = Leave(fs, VideoPath(r.job_id), o.file, r.job_id)
          /\ Step(j, IF DownloadSucceeded(o)
                     THEN [r EXCEPT !.download = o.run, !.pc = "probe"]
                     ELSE Fail([r EXCEPT !.download = o.run], MSG_DOWNLOAD),
                  {VideoPath(r.job_id)})

(* lines 285-296: ffprobe reads the source video *)
JProbe(j) ==
    LET r == jobs[j] IN
    /\ r.pc = "probe"
    /\ \E d \in ConcProbeResults :
          Step(j, IF DurationRejected(d)
                  THEN Fail([r EXCEPT !.duration = d], MSG_DURATION)
                  ELSE [r EXCEPT !.duration = d,
                                 !.interval = IntervalForVtt(d),
                                 !.num = NumThumbnails(d.ms),
                                 !.pc = "extract"],
               {VideoPath(r.job_id)})
    /\ UNCHANGED fs

(* lines 99-143: ffmpeg reads the source video and writes thumb_path *)
JExtract(j) ==
    LET r == jobs[j] IN
    /\ r.pc = "extract"
    /\ r.i < r.num
    /\ \E o \in ConcExtractOutcomes :
          /\ fs' = Leave(fs, ThumbPath(r.job_id, r.i), o.file, r.job_id)
          /\ Step(j, [r EXCEPT !.outs = Append(@, o),
                               !.paths = IF FrameKept(o)
                                         THEN Append(@, r.i) ELSE @,
                               !.i = AfterAttempt(r.i, r.num, o)],
                  {VideoPath(r.job_id), ThumbPath(r.job_id, r.i)})

(* lines 144 and 301-302 *)
JSampleReturn(j) ==
    LET r == jobs[j] IN
    /\ r.pc = "extract"
    /\ r.i >= r.num
    /\ Step(j, IF r.paths = <<>> THEN Fail(r, MSG_NO_THUMBS)
               ELSE [r EXCEPT !.pc = "compose_write"], {})
    /\ UNCHANGED fs

(* lines 160-169: the manifest is written beside the sprite *)
JComposeWrite(j) ==
    LET r == jobs[j]
        mp == ManifestPath(SpritePath(r.job_id)) IN
    /\ r.pc = "compose_write"
    /\ \E o \in ConcComposeOutcomes :
          IF o = "open_failed"
          THEN /\ Step(j, Fail([r EXCEPT !.compose = o], MSG_SPRITE), {mp})
               /\ UNCHANGED fs
          ELSE /\ fs' = Write(fs, mp,
                              File("data", r.job_id, SortedPaths(r.paths)))
               /\ Step(j, [r EXCEPT !.compose = o, !.pc = "compose_run"], {mp})

(* lines 172-183: ffmpeg reads the manifest and the frames it lists and
   writes the sprite; without its manifest it fails *)
JComposeRun(j) ==
    LET r == jobs[j]
        mp == ManifestPath(SpritePath(r.job_id)) IN
    /\ r.pc = "compose_run"
    /\ IF mp \in DOMAIN fs
       THEN /\ fs' = Leave(fs, SpritePath(r.job_id),
                           SpriteFileAfter(r.compose), r.job_id)
            /\ Step(j, [r EXCEPT !.tile = <<[writer |-> fs[mp].writer,
                                            inputs |-> fs[mp].content,
                                            rows |-> NumRows(Len(r.paths))]>>,
                                 !.tool = r.compose,
                                 !.pc = "compose_clean"],
                    {mp, SpritePath(r.job_id)}
                      \cup {ThumbPath(r.job_id, k) : k \in FramesOf(r.paths)})
       ELSE /\ Step(j, [r EXCEPT !.tool = "error", !.pc = "compose_clean"],
                    {mp})
            /\ UNCHANGED fs

(* lines 185-204 and 306-307: the finally block of create_sprite_image *)
JComposeClean(j) ==
    LET r == jobs[j]
        mp == ManifestPath(SpritePath(r.job_id)) IN
    /\ r.pc = "compose_clean"
    /\ fs' = IF mp \in DOMAIN fs THEN Remove(fs, mp) ELSE fs
    /\ Step(j, IF r.tool = "ok" THEN [r EXCEPT !.pc = "cue"]
               ELSE Fail(r, MSG_SPRITE), {mp})

(* lines 309-326 *)
JBuildCue(j) ==
    LET r == jobs[j] IN
    /\ r.pc = "cue"
    /\ \E o \in ConcCueOutcomes :
          LET v == CreateVttFile(Len(r.paths), r.interval, o) IN
          /\ fs' = IF v.file.state = "absent" THEN fs
                   ELSE Write(fs, VttPath(r.job_id),
                              File(v.file.state, r.job_id, <<>>))
          /\ Step(j, [r EXCEPT !.cue = o,
                               !.response = IF v.ret THEN SuccessResponse
                                            ELSE ErrorResponse(500, MSG_VTT),
                               !.pc = "remove_video"],
                  {VttPath(r.job_id)})

(* lines 334-339 *)
JRemoveVideo(j) ==
    LET r == jobs[j] IN
    /\ r.pc = "remove_video"
    /\ fs' = IF VideoPath(r.job_id) \in DOMAIN fs
             THEN Remove(fs, VideoPath(r.job_id)) ELSE fs
    /\ Step(j, [r EXCEPT !.pc = "remove_thumbs"], {VideoPath(r.job_id)})

(* lines 342-352 *)
JRemoveThumbs(j) ==
    LET r == jobs[j]
        ps == {ThumbPath(r.job_id, k) : k \in FramesOf(r.paths)} IN
    /\ r.pc = "remove_thumbs"
    /\ fs' = [q \in DOMAIN fs \ ps |-> fs[q]]
    /\ Step(j, [r EXCEPT !.pc = "done"], ps)

JobStep(j) ==
    \/ JRequest(j)
    \/ JDownload(j)
    \/ JProbe(j)
    \/ JExtract(j)
    \/ JSampleReturn(j)
    \/ JComposeWrite(j)
    \/ JComposeRun(j)
    \/ JComposeClean(j)
    \/ JBuildCue(j)
    \/ JRemoveVideo(j)
    \/ JRemoveThumbs(j)

ConcNext ==
    /\ \E j \in Slots : JobStep(j)
    /\ UNCHANGED serve
    /\ UNCHANGED job_vars

ConcSpec == ConcInit /\ [][ConcNext]_vars


(* the paths that belong to the job with this id: its source video and
   everything in its workspace *)
OwnPath(id, p) ==
    \/ Len(p) >= 2 /\ p[1] = Name("temp_thumbnails") /\ p[2] = Name(id)
    \/ p = <<Name("temp_videos"),
             [parts |-> <<"input_", id, ".mp4">>, idx |-> -1]>>

JobStartedAt(j) == jobs[j].job_id # ""

(* what the job of slot j must answer, told from the outcomes of its own
   collaborators alone *)
ResponseAlone(j) ==
    LET r == jobs[j] IN
    IF r.download # "ok" THEN ErrorResponse(500, MSG_DOWNLOAD)
    ELSE IF r.duration.kind = "none" \/ r.duration.ms <= 0
         THEN ErrorResponse(500, MSG_DURATION)
    ELSE IF \A k \in 1..Len(r.outs) :
               ~(r.outs[k].run = "ok" /\ r.outs[k].file = "data")
         THEN ErrorResponse(500, MSG_NO_THUMBS)
    ELSE IF r.compose # "ok" THEN ErrorResponse(500, MSG_SPRITE)
    ELSE IF r.cue # "ok" THEN ErrorResponse(500, MSG_VTT)
    ELSE SuccessResponse

(* the files the job of slot j must leave in its workspace, told from the
   outcomes of its own collaborators alone *)
FilesAlone(j) ==
    LET r == jobs[j] IN
    {[name |-> ThumbName(k - 1), size |-> r.outs[k].file] :
        k \in {n \in 1..Len(r.outs) :
                  /\ r.outs[n].file # "absent"
                  /\ ~(r.outs[n].run = "ok" /\ r.outs[n].file = "data")}}
      \cup {[name |-> Name("sprite.jpg"), size |-> "data"] :
              x \in {r.compose} \cap {"ok", "timeout"}}
      \cup {[name |-> Name("sprite.vtt"),
             size |-> IF x = "ok" THEN "complete" ELSE "partial"] :
              x \in {r.cue} \cap {"ok", "write_failed"}}

(* the files that are in the workspace of the job of slot j *)
FilesOfJob(j) ==
    {[name |-> p[3], size |-> fs[p].size] :
        p \in {q \in DOMAIN fs :
                  /\ Len(q) = 3
                  /\ q[1] = Name("temp_thumbnails")
                  /\ q[2] = Name(jobs[j].job_id)}}

(* C12: under every interleaving of two jobs, each job accesses only its
   own source video and its own workspace, the two have different ids,
   every file of a job was last written by that job, the tile command
   reads the manifest its own job wrote, and a finished job has given the
   answer and left the files its own collaborators' outcomes determine *)
C12_JobsIndependent ==
    /\ \A j \in DOMAIN jobs : \A p \in jobs[j].touched :
          OwnPath(jobs[j].job_id, p)
    /\ \A j, k \in DOMAIN jobs :
          (j # k /\ JobStartedAt(j)) => jobs[j].job_id # jobs[k].job_id
    /\ \A p \in DOMAIN fs \ DOMAIN StaticTree :
          \E j \in DOMAIN jobs :
             /\ JobStartedAt(j)
             /\ OwnPath(jobs[j].job_id, p)
             /\ fs[p].kind = "file" => fs[p].writer = jobs[j].job_id
    /\ \A j \in DOMAIN jobs : \A t \in 1..Len(jobs[j].tile) :
          /\ jobs[j].tile[t].writer = jobs[j].job_id
          /\ jobs[j].tile[t].inputs = SortedPaths(jobs[j].paths)
    /\ \A j \in DOMAIN jobs :
          jobs[j].pc = "done" =>
             /\ jobs[j].response = ResponseAlone(j)
             /\ FilesOfJob(j) = FilesAlone(j)
             /\ \A p \in DOMAIN fs :
                   (Len(p) = 2 /\ p[1] = Name("temp_videos"))
                      => ~OwnPath(jobs[j].job_id, p)

(* job 1 has finished successfully and cleaned up while job 2, between
   writing its manifest and running the tile command, still has its
   source video, its frame and its manifest *)
C12_Witness ==
    /\ DOMAIN jobs = {1, 2}
    /\ jobs[1].pc = "done"
    /\ jobs[1].response = SuccessResponse
    /\ jobs[2].pc = "compose_run"
    /\ jobs[2].paths = <<0, 1>>
    /\ VideoPath(jobs[2].job_id) \in DOMAIN fs
    /\ ThumbPath(jobs[2].job_id, 0) \in DOMAIN fs
    /\ Join(WorkspacePath(jobs[2].job_id), MANIFEST_FILENAME) \in DOMAIN fs
    /\ FilesOfJob(1) = {[name |-> SPRITE_FILENAME, size |-> "data"],
                        [name |-> VTT_FILENAME, size |-> "complete"]}

====
